---- MODULE Spec2Model ----
(***************************************************************************)
(* BackPACK module-extension protocol (ModuleExtension.__call__), the      *)
(* quantity store it reads and writes (extension.saved_quantities), and    *)
(* the branching modules (Branch, SumModule, Parallel) it is run over.     *)
(***************************************************************************)
EXTENDS Integers, Sequences, FiniteSets, TLC

\* Python's None: what a fetch yields for a missing key, what the default
\* backpropagate returns, and the value of an absent module parameter.
None == [none |-> TRUE]

\* ---------------------------------------------------------------- bounds
\* Storage addresses the allocator hands out: 0 .. NumAddr-1.
NumAddr == 5
\* Backward passes run on one extension (caps the pass counter).
MaxPass == 2
\* Store operations remembered in the store-only specification.
MaxHist == 2

Addrs == 0 .. (NumAddr - 1)

VARIABLES
    ext,                 \* the BackpropExtension: [expects, savefield]
    module_extensions,   \* module class -> its ModuleExtension: [params, overrides]
    FULL_BACKWARD_HOOK,  \* backpack.utils.FULL_BACKWARD_HOOK
    saved_quantities,    \* ext.saved_quantities: set of <<key, payload>> entries
    net,                 \* which network was built and extended
    tensors,             \* tensor id -> [data_ptr, shape, requires_grad], None before a forward pass
    io,                  \* module id -> [input0, output] stored at forward, None when cleared
    parameters,          \* module id -> parameter name -> None or [requires_grad, attrs]
    pass,                \* number of backward passes started
    phase,               \* "init", "forward", "backward", "done" or "aborted"
    retain_graph,        \* retain_graph of the current backward pass
    fired,               \* modules whose hook has run in the current backward pass
    hook,                \* what the most recent hook invocation did
    hist,                \* store-only specification: the last store operations, oldest first
    call                 \* a constructor or forward call on its own: its arguments and outcome

\* The state of the hook engine.
engine == <<ext, module_extensions, FULL_BACKWARD_HOOK, saved_quantities, net, tensors,
            io, parameters, pass, phase, retain_graph, fired, hook, hist>>

vars == <<engine, call>>

\* No constructor or forward call has been made on its own.
NoCall == [op |-> "none"]

\* ------------------------------------------------------------ the networks
\* "sequential":      Sequential(Linear, Flatten, Linear) and a loss, the
\*                    Flatten reshaping its input;
\* "sequential_noop": the same with a Flatten whose input is already flat;
\* "parallel":        Parallel(Linear, ActiveIdentity()) and a loss.
\* Tensor 0 is the network input; tensor m is the output of module m.
Nets == {"sequential", "sequential_noop", "parallel"}

ModuleIds == 1 .. 4
TensorIds == 0 .. 4
ParamNames == {"bias", "weight"}
Savefields == {"diag_h", "sqrt_ggn"}
Classes == {"Linear", "Flatten", "ActiveIdentity", "SumModule", "Loss"}

ClassOf(n, m) ==
    IF n = "parallel"
    THEN <<"Linear", "ActiveIdentity", "SumModule", "Loss">>[m]
    ELSE <<"Linear", "Flatten", "Linear", "Loss">>[m]

\* Branch.forward feeds the same input to every child; Parallel.forward hands
\* the tuple of their outputs to the merge module.
InputsOf(n, m) ==
    IF n = "parallel"
    THEN << <<0>>, <<0>>, <<1, 2>>, <<3>> >>[m]
    ELSE <<m - 1>>

\* The modules a tensor is an input of.
ConsumersOf(n, t) ==
    {m \in ModuleIds : \E i \in 1 .. Len(InputsOf(n, m)) : InputsOf(n, m)[i] = t}

\* An attribute that was never set: on a parameter, a savefield not yet
\* written; on a module, a field the module does not have at all.
NoAttr == [unset |-> TRUE]

NewParam(requires_grad) ==
    [requires_grad |-> requires_grad, attrs |-> [f \in Savefields |-> NoAttr]]

\* The parameters the modules of a network are built with.
ParametersOf(n) ==
    [m \in ModuleIds |->
        IF ClassOf(n, m) # "Linear"
        THEN [p \in ParamNames |-> None]
        ELSE IF m = 1
        THEN [p \in ParamNames |-> NewParam(TRUE)]
        ELSE [p \in ParamNames |-> IF p = "weight" THEN NewParam(FALSE) ELSE None]]

\* Whether a module has a parameter that requires grad.
HasTrainable(m) ==
    \E p \in ParamNames : parameters[m][p] \notin {None, NoAttr} /\ parameters[m][p].requires_grad

\* requires_grad of tensor t after a forward pass whose input has requires_grad x.
RECURSIVE RequiresGrad(_, _)
RequiresGrad(x, t) ==
    IF t = 0 THEN x
    ELSE HasTrainable(t)
         \/ \E i \in 1 .. Len(InputsOf(net, t)) : RequiresGrad(x, InputsOf(net, t)[i])

\* A Flatten returns a view of its input: the two tensors share their storage.
StorageOf(n, t) == IF t >= 1 /\ ClassOf(n, t) = "Flatten" THEN t - 1 ELSE t

ShapeOf(n, t) == IF n = "sequential" /\ t = 1 THEN "nd" ELSE "flat"

\* ----------------------------------------------------- the quantity store
\* Keys present in a store.
keys_of(sq) == {e[1] : e \in sq}

\* The entry a lookup of key finds.
entry_of(sq, key) == CHOOSE e \in sq : e[1] = key

\* retrieve_quantity(key, delete_old): the payload of key or None, and the
\* store afterwards (the entry read is removed when delete_old).
retrieve_quantity(sq, key, delete_old) ==
    IF key \in keys_of(sq)
    THEN [value |-> entry_of(sq, key)[2],
          store |-> IF delete_old THEN sq \ {entry_of(sq, key)} ELSE sq]
    ELSE [value |-> None, store |-> sq]

\* save_quantity without removing the entry the key already has.
save_quantity_keep_old(sq, key, quantity) == sq \cup {<<key, quantity>>}

\* save_quantity(key, quantity): inserts or overwrites the entry of key.
save_quantity(sq, key, quantity) ==
    {e \in sq : e[1] # key} \cup {<<key, quantity>>}

\* reference_tensor.data_ptr(): the storage address of a tensor.
data_ptr(reference_tensor) == tensors[reference_tensor].data_ptr

\* __get_backproped_quantity that never deletes.
__get_backproped_quantity_never_delete(sq, reference_tensor, delete_old) ==
    retrieve_quantity(sq, data_ptr(reference_tensor), FALSE)

\* __get_backproped_quantity that deletes whatever delete_old says.
__get_backproped_quantity_always_delete(sq, reference_tensor, delete_old) ==
    retrieve_quantity(sq, data_ptr(reference_tensor), TRUE)

\* ModuleExtension.__get_backproped_quantity (the reference is reference_tensor.data_ptr())
__get_backproped_quantity(sq, reference_tensor, delete_old) ==
    retrieve_quantity(sq, data_ptr(reference_tensor), delete_old)

\* __save_backproped_quantity that adds an entry and leaves the old one.
__save_backproped_quantity_keep_old(sq, reference_tensor, bpQuantities) ==
    save_quantity_keep_old(sq, data_ptr(reference_tensor), bpQuantities)

\* __save_backproped_quantity keyed by the tensor object, not by its data_ptr().
__save_backproped_quantity_by_id(sq, reference_tensor, bpQuantities) ==
    save_quantity(sq, reference_tensor, bpQuantities)

\* ModuleExtension.__save_backproped_quantity
__save_backproped_quantity(sq, reference_tensor, bpQuantities) ==
    save_quantity(sq, data_ptr(reference_tensor), bpQuantities)


\* ------------------------------------------------ the extension protocol
\* extension.expects_backpropagation_quantities()
expects_backpropagation_quantities(extension) == extension.expects

\* backpack.utils.module_classification.is_loss
is_loss(module) == module.cls = "Loss"

isinstance(module, class) == module.cls = class

\* The module object a hook is called with: its class and what the forward
\* pass stored on it.
ModuleObj(m) ==
    [id |-> m, cls |-> ClassOf(net, m), input0 |-> io[m].input0, output |-> io[m].output]

\* The record of one call of an extension function: its name and arguments.
CallOf(fn, extension, module, g_inp, g_out, bpQuantities) ==
    [fn |-> fn, extension |-> extension, module |-> module.id,
     g_inp |-> g_inp, g_out |-> g_out, bpQuantities |-> bpQuantities]

\* getattr(self, param)(extension, module, g_inp, g_out, bpQuantities): the
\* value is whatever that function makes of these arguments.
extFunc(param, extension, module, g_inp, g_out, bpQuantities) ==
    CallOf(param, extension, module, g_inp, g_out, bpQuantities)

\* ModuleExtension.backpropagate: the default warns and returns None; an
\* overriding extension returns a new quantity for the module input.
backpropagate(self, extension, module, g_inp, g_out, bpQuantities) ==
    IF self.overrides THEN [by |-> module.id, pass |-> pass] ELSE None

\* __should_backpropagate with the driver's expectation negated.
__should_backpropagate_unless_expected(extension, module) ==
    tensors[module.input0].requires_grad /\ ~expects_backpropagation_quantities(extension)

\* __should_backpropagate with "or" for "and".
__should_backpropagate_either(extension, module) ==
    tensors[module.input0].requires_grad \/ expects_backpropagation_quantities(extension)

\* ModuleExtension.__should_backpropagate
__should_backpropagate(extension, module) ==
    LET input_requires_grad == tensors[module.input0].requires_grad
    IN  input_requires_grad /\ expects_backpropagation_quantities(extension)

\* getattr(module, param_str) raises AttributeError when the module has no
\* attribute of that name.
getattr_raises(P, module, param_str) == P[module.id][param_str] = NoAttr

\* __param_exists_and_requires_grad that does not look at requires_grad.
__param_exists(P, module, param_str) == P[module.id][param_str] # None

\* ModuleExtension.__param_exists_and_requires_grad
__param_exists_and_requires_grad(P, module, param_str) ==
    LET param_exists == P[module.id][param_str] # None
    IN  param_exists /\ P[module.id][param_str].requires_grad

\* __save_value_on_parameter that keeps a value already stored.
__save_value_on_parameter_keep_old(P, value, extension, module, param_str) ==
    IF P[module.id][param_str].attrs[extension.savefield] = NoAttr
    THEN [P EXCEPT ![module.id][param_str].attrs[extension.savefield] = value]
    ELSE P

\* ModuleExtension.__save_value_on_parameter
__save_value_on_parameter(P, value, extension, module, param_str) ==
    [P EXCEPT ![module.id][param_str].attrs[extension.savefield] = value]

\* The loop over self.__params from position i on: acc carries the parameters
\* and the calls made so far, and the error that ended the loop.
RECURSIVE param_loop(_, _, _, _, _, _, _, _)
param_loop(self, i, extension, module, g_inp, g_out, bp_quantity, acc) ==
    IF i > Len(self.params) THEN acc
    ELSE LET param == self.params[i] IN
         IF getattr_raises(acc.parameters, module, param)
         THEN [acc EXCEPT !.raised = "AttributeError"]
         ELSE IF __param_exists_and_requires_grad(acc.parameters, module, param)
         THEN LET extValue == extFunc(param, extension, module, g_inp, g_out, bp_quantity)
              IN  param_loop(self, i + 1, extension, module, g_inp, g_out, bp_quantity,
                     [parameters |-> __save_value_on_parameter(
                                        acc.parameters, extValue, extension, module, param),
                      calls |-> Append(acc.calls,
                                   CallOf(param, extension, module, g_inp, g_out,
                                          bp_quantity)),
                      raised |-> "none"])
         ELSE param_loop(self, i + 1, extension, module, g_inp, g_out, bp_quantity, acc)

\* validate without the exemption of loss modules.
validate_without_loss_exemption(extension, module, bp_quantity) ==
    IF expects_backpropagation_quantities(extension) /\ bp_quantity = None
    THEN IF ~FULL_BACKWARD_HOOK /\ isinstance(module, "Flatten")
         THEN IF tensors[module.input0].shape # tensors[module.output].shape
              THEN "raise" ELSE "return"
         ELSE "raise"
    ELSE "go on"

\* validate that grants the legacy-hook exemption to every module class.
validate_exempts_any_class(extension, module, bp_quantity) ==
    IF expects_backpropagation_quantities(extension) /\ bp_quantity = None /\ ~is_loss(module)
    THEN IF ~FULL_BACKWARD_HOOK
         THEN IF tensors[module.input0].shape # tensors[module.output].shape
              THEN "raise" ELSE "return"
         ELSE "raise"
    ELSE "go on"

\* validate that lets a no-op Flatten under the legacy hook go on to steps 3 and 4.
validate_no_early_return(extension, module, bp_quantity) ==
    IF expects_backpropagation_quantities(extension) /\ bp_quantity = None /\ ~is_loss(module)
    THEN IF ~FULL_BACKWARD_HOOK /\ isinstance(module, "Flatten")
         THEN IF tensors[module.input0].shape # tensors[module.output].shape
              THEN "raise" ELSE "go on"
         ELSE "raise"
    ELSE "go on"

\* validate that checks the fetched quantity whatever the driver expects.
validate_whatever_expected(extension, module, bp_quantity) ==
    IF bp_quantity = None /\ ~is_loss(module)
    THEN IF ~FULL_BACKWARD_HOOK /\ isinstance(module, "Flatten")
         THEN IF tensors[module.input0].shape # tensors[module.output].shape
              THEN "raise" ELSE "return"
         ELSE "raise"
    ELSE "go on"

\* Whether step 2 of __call__ stops the invocation: "raise", "return" or "go on".
validate(extension, module, bp_quantity) ==
    IF expects_backpropagation_quantities(extension)
       /\ bp_quantity = None
       /\ ~is_loss(module)
    THEN IF ~FULL_BACKWARD_HOOK /\ isinstance(module, "Flatten")
         THEN LET no_op == tensors[module.input0].shape = tensors[module.output].shape
              IN  IF ~no_op THEN "raise" ELSE "return"
         ELSE "raise"
    ELSE "go on"

\* __call__ that runs backpropagate before the loop over the parameters and
\* hands the loop the quantity backpropagate returned.
__call__backpropagate_first(self, extension, module, g_inp, g_out, sq, P) ==
    LET got == __get_backproped_quantity(sq, module.output, TRUE)
        bp_quantity == got.value
        verdict == validate(extension, module, bp_quantity)
        stopped == [module |-> module, fetched |-> bp_quantity,
                    present |-> data_ptr(module.output) \in keys_of(sq),
                    raised |-> IF verdict = "raise" THEN "AssertionError" ELSE "none",
                    returned_early |-> verdict = "return",
                    calls |-> <<>>, saved |-> <<>>,
                    store |-> got.store, parameters |-> P]
        should == __should_backpropagate(extension, module)
        new_quantity == backpropagate(self, extension, module, g_inp, g_out, bp_quantity)
        first == IF should
                 THEN <<CallOf("backpropagate", extension, module, g_inp, g_out, bp_quantity)>>
                 ELSE <<>>
        looped == param_loop(self, 1, extension, module, g_inp, g_out,
                             IF should THEN new_quantity ELSE bp_quantity,
                             [parameters |-> P, calls |-> first, raised |-> "none"])
    IN  IF verdict # "go on" THEN stopped
        ELSE IF looped.raised # "none"
        THEN [stopped EXCEPT !.raised = looped.raised, !.calls = looped.calls,
                             !.parameters = looped.parameters]
        ELSE IF should
        THEN [stopped EXCEPT
                !.calls = looped.calls,
                !.parameters = looped.parameters,
                !.saved = <<[ref |-> module.input0, quantity |-> new_quantity]>>,
                !.store = __save_backproped_quantity(got.store, module.input0, new_quantity)]
        ELSE [stopped EXCEPT !.calls = looped.calls, !.parameters = looped.parameters]

\* ModuleExtension.__call__(extension, module, g_inp, g_out) on the store sq and
\* the parameters P: what it raised, fetched, called and saved, and the store
\* and parameters it leaves.
__call__(self, extension, module, g_inp, g_out, sq, P) ==
    LET got == __get_backproped_quantity(sq, module.output, TRUE)
        bp_quantity == got.value
        verdict == validate(extension, module, bp_quantity)
        stopped == [module |-> module, fetched |-> bp_quantity,
                    present |-> data_ptr(module.output) \in keys_of(sq),
                    raised |-> IF verdict = "raise" THEN "AssertionError" ELSE "none",
                    returned_early |-> verdict = "return",
                    calls |-> <<>>, saved |-> <<>>,
                    store |-> got.store, parameters |-> P]
        looped == param_loop(self, 1, extension, module, g_inp, g_out, bp_quantity,
                             [parameters |-> P, calls |-> <<>>, raised |-> "none"])
        new_quantity == backpropagate(self, extension, module, g_inp, g_out, bp_quantity)
    IN  IF verdict # "go on" THEN stopped
        ELSE IF looped.raised # "none"
        THEN [stopped EXCEPT !.raised = looped.raised, !.calls = looped.calls,
                             !.parameters = looped.parameters]
        ELSE IF __should_backpropagate(extension, module)
        THEN [stopped EXCEPT
                !.calls = Append(looped.calls,
                              CallOf("backpropagate", extension, module, g_inp, g_out,
                                     bp_quantity)),
                !.parameters = looped.parameters,
                !.saved = <<[ref |-> module.input0, quantity |-> new_quantity]>>,
                !.store = __save_backproped_quantity(got.store, module.input0, new_quantity)]
        ELSE [stopped EXCEPT !.calls = looped.calls, !.parameters = looped.parameters]

\* ------------------------------------------------------------ the engine
\* Which module classes have a ModuleExtension that overrides backpropagate.
OverrideChoices == {Classes, {}, Classes \ {"Linear"}}

\* The ModuleExtension of each module class: a Linear extension treats bias
\* and weight, the others no parameter.
ModuleExtensionsWith(overriding) ==
    [c \in Classes |->
        [params |-> IF c = "Linear" THEN <<"bias", "weight">> ELSE <<>>,
         overrides |-> c \in overriding]]

\* No hook has run yet.
NoHook == [module |-> None, fetched |-> None, present |-> FALSE, raised |-> "none", returned_early |-> FALSE,
           calls |-> <<>>, saved |-> <<>>, pass |-> 0]

\* The tensors of a forward pass: the allocator places them from address base
\* on, a view at the address of the tensor it views.
Allocate(base, x) ==
    [t \in TensorIds |->
        [data_ptr |-> (base + StorageOf(net, t)) % NumAddr,
         shape |-> ShapeOf(net, t),
         requires_grad |-> RequiresGrad(x, t)]]

\* The gradients the engine hands to a hook.
GradInp(m) == [grad_wrt |-> io[m].input0]
GradOut(m) == [grad_wrt |-> io[m].output]

\* The engine runs a module's hook once the hooks of all modules that consume
\* its output have run, and only if the output takes part in differentiation.
Ready(m) ==
    /\ m \notin fired
    /\ io[m] # None
    /\ tensors[io[m].output].requires_grad
    /\ ConsumersOf(net, io[m].output) \subseteq fired

Init ==
    /\ call = NoCall
    /\ ext \in [expects : BOOLEAN, savefield : Savefields]
    /\ module_extensions \in {ModuleExtensionsWith(o) : o \in OverrideChoices}
    /\ FULL_BACKWARD_HOOK \in BOOLEAN
    /\ saved_quantities = {}
    /\ net \in Nets
    /\ tensors = [t \in TensorIds |-> None]
    /\ io = [m \in ModuleIds |-> None]
    /\ parameters = ParametersOf(net)
    /\ pass = 0
    /\ phase = "init"
    /\ retain_graph = FALSE
    /\ fired = {}
    /\ hook = NoHook
    /\ hist = <<>>

\* A forward pass over fresh tensors; every module stores its input0 and output.
Forward(base, x) ==
    /\ phase # "backward"
    /\ pass < MaxPass
    /\ tensors' = Allocate(base, x)
    /\ io' = [m \in ModuleIds |-> [input0 |-> InputsOf(net, m)[1], output |-> m]]
    /\ phase' = "forward"
    /\ fired' = {}
    /\ UNCHANGED <<call, ext, module_extensions, FULL_BACKWARD_HOOK, saved_quantities, net,
                   parameters, pass, retain_graph, hook, hist>>

\* loss.backward(retain_graph=retain): on a fresh graph, or again on a graph
\* the previous backward pass retained.
Backward(retain) ==
    /\ pass < MaxPass
    /\ \/ phase = "forward"
       \/ phase \in {"done", "aborted"} /\ retain_graph
    /\ pass' = pass + 1
    /\ phase' = "backward"
    /\ retain_graph' = retain
    /\ fired' = {}
    /\ UNCHANGED <<call, ext, module_extensions, FULL_BACKWARD_HOOK, saved_quantities, net,
                   tensors, io, parameters, hook, hist>>

\* Once a module's backward hook has completed, its input0 and output are
\* removed from it.
memory_cleanup(IO, m) == [IO EXCEPT ![m] = None]

\* The backward hook of module m: ModuleExtension.__call__, then the module's
\* input0/output are cleared unless the graph is retained. An error ends the pass.
Hook(m) ==
    /\ phase = "backward"
    /\ Ready(m)
    /\ LET r == __call__(module_extensions[ClassOf(net, m)], ext, ModuleObj(m),
                         GradInp(m), GradOut(m), saved_quantities, parameters)
           done == fired \cup {m}
       IN  /\ saved_quantities' = r.store
           /\ parameters' = r.parameters
           /\ hook' = [module |-> r.module, fetched |-> r.fetched,
                       present |-> r.present, raised |-> r.raised,
                       returned_early |-> r.returned_early, calls |-> r.calls,
                       saved |-> r.saved, pass |-> pass]
           /\ IF r.raised # "none"
              THEN /\ phase' = "aborted"
                   /\ UNCHANGED <<fired, io>>
              ELSE /\ fired' = done
                   /\ io' = IF retain_graph THEN io ELSE memory_cleanup(io, m)
                   /\ phase' = IF \E k \in ModuleIds \ done : tensors[k].requires_grad
                               THEN "backward" ELSE "done"
    /\ UNCHANGED <<call, ext, module_extensions, FULL_BACKWARD_HOOK, net, tensors, pass,
                   retain_graph, hist>>

Next ==
    \/ \E base \in Addrs, x \in BOOLEAN : Forward(base, x)
    \/ \E retain \in BOOLEAN : Backward(retain)
    \/ \E m \in ModuleIds : Hook(m)

Spec == Init /\ [][Next]_vars

\* ------------------------------------------- the store on its own
\* A module s saves a quantity with its input0 as reference, as step 4 of
\* __call__ does; a fetch uses any tensor as reference.
StoreSavers == {1, 2, 3}
StoreRefs == {0, 1, 2}
StoreQuantities(s) == {None, [by |-> s, pass |-> 1], [by |-> s, pass |-> 2]}

Remember(entry) == IF Len(hist) < MaxHist THEN Append(hist, entry) ELSE Append(Tail(hist), entry)

InitStore ==
    /\ call = NoCall
    /\ ext = [expects |-> TRUE, savefield |-> "diag_h"]
    /\ module_extensions = ModuleExtensionsWith(Classes)
    /\ FULL_BACKWARD_HOOK = TRUE
    /\ saved_quantities = {}
    /\ net = "sequential"
    /\ parameters = ParametersOf(net)
    /\ tensors = Allocate(1, FALSE)
    /\ io = [m \in ModuleIds |-> [input0 |-> InputsOf(net, m)[1], output |-> m]]
    /\ pass = 0
    /\ phase = "forward"
    /\ retain_graph = FALSE
    /\ fired = {}
    /\ hook = NoHook
    /\ hist = <<>>

StoreSave(s, q) ==
    /\ saved_quantities' = __save_backproped_quantity(saved_quantities, io[s].input0, q)
    /\ hist' = Remember([op |-> "save", ref |-> io[s].input0,
                         key |-> data_ptr(io[s].input0), quantity |-> q,
                         delete_old |-> FALSE, ret |-> None])
    /\ UNCHANGED <<call, ext, module_extensions, FULL_BACKWARD_HOOK, net, tensors, io,
                   parameters, pass, phase, retain_graph, fired, hook>>

StoreRetrieve(t, d) ==
    /\ LET r == __get_backproped_quantity(saved_quantities, t, d)
       IN  /\ saved_quantities' = r.store
           /\ hist' = Remember([op |-> "retrieve", ref |-> t, key |-> data_ptr(t),
                                quantity |-> None, delete_old |-> d, ret |-> r.value])
    /\ UNCHANGED <<call, ext, module_extensions, FULL_BACKWARD_HOOK, net, tensors, io,
                   parameters, pass, phase, retain_graph, fired, hook>>

NextStore ==
    \/ \E s \in StoreSavers : \E q \in StoreQuantities(s) : StoreSave(s, q)
    \/ \E t \in StoreRefs, d \in BOOLEAN : StoreRetrieve(t, d)

SpecStore == InitStore /\ [][NextStore]_vars

\* ------------------------------------------- one hook invocation on its own
\* What a field of the hooked module may be: no such attribute, None, a
\* parameter that does not require grad, a parameter that does.
FieldChoices == {NoAttr, None, NewParam(FALSE), NewParam(TRUE)}

\* The parameter names the module's extension was constructed with.
TrackedChoices == {<<"bias", "weight">>, <<"weight">>, <<>>}

\* The store a hook may find: empty, or holding one entry, a quantity or None.
StoreChoices ==
    {{}} \cup {{<<a, q>>} : a \in Addrs, q \in {None, [by |-> 4, pass |-> 1]}}

InitHook ==
    /\ call = NoCall
    /\ ext \in [expects : BOOLEAN, savefield : Savefields]
    /\ \E tracked \in TrackedChoices, overrides \in BOOLEAN :
          module_extensions = [c \in Classes |-> [params |-> tracked, overrides |-> overrides]]
    /\ FULL_BACKWARD_HOOK \in BOOLEAN
    /\ saved_quantities \in StoreChoices
    /\ net \in Nets
    /\ \E bias \in FieldChoices, weight \in FieldChoices :
          parameters = [m \in ModuleIds |->
                           [p \in ParamNames |-> IF p = "bias" THEN bias ELSE weight]]
    /\ \E x \in BOOLEAN : tensors = Allocate(0, x)
    /\ io = [m \in ModuleIds |-> [input0 |-> InputsOf(net, m)[1], output |-> m]]
    /\ pass = 1
    /\ phase = "backward"
    /\ retain_graph = FALSE
    /\ fired = {}
    /\ hook = NoHook
    /\ hist = <<>>

\* module_extension(extension, module, g_inp, g_out) for a module m, whatever
\* the store holds at that moment.
Invoke(m) ==
    /\ phase = "backward"
    /\ hook = NoHook
    /\ LET r == __call__(module_extensions[ClassOf(net, m)], ext, ModuleObj(m),
                         GradInp(m), GradOut(m), saved_quantities, parameters)
       IN  /\ saved_quantities' = r.store
           /\ parameters' = r.parameters
           /\ hook' = [module |-> r.module, fetched |-> r.fetched,
                       present |-> r.present, raised |-> r.raised,
                       returned_early |-> r.returned_early, calls |-> r.calls,
                       saved |-> r.saved, pass |-> pass]
           /\ phase' = IF r.raised # "none" THEN "aborted" ELSE "done"
    /\ UNCHANGED <<call, ext, module_extensions, FULL_BACKWARD_HOOK, net, tensors, io,
                   pass, retain_graph, fired, hist>>

NextHook == \E m \in ModuleIds : Invoke(m)

SpecHook == InitHook /\ [][NextHook]_vars

\* ------------------------------------------------- test_retain_graph
\* range(3): the backward passes of the loop over a retained graph.
Replays == 3

\* The last backward call of test_retain_graph.
LastBackward == 3 + Replays

\* retain_graph of every backward call being False.
retain_graph_never(p) == FALSE

\* retain_graph of the p-th backward call of test_retain_graph: the first and
\* the last are loss.backward(), those between loss.backward(retain_graph=True).
retain_graph_of(p) == p \in 2 .. (2 + Replays)

\* list(model.children()): the leaf modules of the extended model; the loss
\* function is extended on its own and is not part of the tree.
model_children(n) == {m \in ModuleIds : ClassOf(n, m) # "Loss"}

\* hasattr(module, "input0") or hasattr(module, "output")
has_input0_or_output(m) == io[m] # None

\* _clear_input_output(parent_module): raises if a leaf has input0 or output.
_clear_input_output(parent_module) ==
    IF \E m \in parent_module : has_input0_or_output(m)
    THEN "AssertionError" ELSE "True"

InitTest ==
    /\ Init
    /\ net # "parallel"

\* loss = loss_fn(model(rand(8, 4)), randint(5, (8,))): at the start, and again
\* after the first backward pass.
TestForward(base) ==
    /\ phase = "init" \/ (phase = "done" /\ pass = 1)
    /\ tensors' = Allocate(base, FALSE)
    /\ io' = [m \in ModuleIds |-> [input0 |-> InputsOf(net, m)[1], output |-> m]]
    /\ phase' = "forward"
    /\ fired' = {}
    /\ UNCHANGED <<call, ext, module_extensions, FULL_BACKWARD_HOOK, saved_quantities, net,
                   parameters, pass, retain_graph, hook, hist>>

\* The next loss.backward(...) of the test.
TestBackward ==
    /\ pass < LastBackward
    /\ \/ phase = "forward"
       \/ phase = "done" /\ retain_graph
    /\ pass' = pass + 1
    /\ phase' = "backward"
    /\ retain_graph' = retain_graph_of(pass + 1)
    /\ fired' = {}
    /\ UNCHANGED <<call, ext, module_extensions, FULL_BACKWARD_HOOK, saved_quantities, net,
                   tensors, io, parameters, hook, hist>>

NextTest ==
    \/ \E base \in Addrs : TestForward(base)
    \/ TestBackward
    \/ \E m \in ModuleIds : Hook(m)

SpecTest == InitTest /\ [][NextTest]_vars

\* ---------------------------------------- constructing module extensions
\* Lists of declared parameter names have at most MaxParams entries.
MaxParams == 2

\* Attribute names of a module extension: the two parameter names and a name
\* the base class defines itself.
AttrNames == ParamNames \cup {"backpropagate"}

\* The params argument: None or a list of names.
ParamLists == UNION {[1 .. n -> AttrNames] : n \in 0 .. MaxParams}
ParamArgs == {None} \cup {[list |-> l] : l \in ParamLists}

\* The derivatives argument of SqrtGGNBaseModule.
Derivatives == {[derivatives |-> "BaseParameterDerivatives"], [derivatives |-> "BaseDerivatives"]}

\* A new instance of a child class that defines the given methods; every
\* instance has the methods of ModuleExtension.
NewInstance(methods) ==
    [n \in AttrNames |->
        IF n \in methods THEN [defined_by |-> "child"]
        ELSE IF n = "backpropagate" THEN [defined_by |-> "ModuleExtension"]
        ELSE NoAttr]

hasattr(self, name) == self[name] # NoAttr

setattr(self, name, value) == [self EXCEPT ![name] = value]

\* The loop of ModuleExtension.__init__ from position i on: the error it raises.
RECURSIVE check_params(_, _, _)
check_params(self, params, i) ==
    IF i > Len(params) THEN "none"
    ELSE IF ~hasattr(self, params[i]) THEN "NotImplementedError"
    ELSE check_params(self, params, i + 1)

\* ModuleExtension.__init__ that looks at the first declared name only.
ModuleExtension__init__first_only(self, params) ==
    LET __params == IF params = None THEN <<>> ELSE params.list
    IN  [self |-> self, __params |-> __params, derivatives |-> None,
         raised |-> IF __params # <<>> /\ ~hasattr(self, __params[1])
                    THEN "NotImplementedError" ELSE "none"]

\* ModuleExtension.__init__(self, params)
ModuleExtension__init__(self, params) ==
    LET __params == IF params = None THEN <<>> ELSE params.list
    IN  [self |-> self, __params |-> __params, derivatives |-> None,
         raised |-> check_params(self, __params, 1)]

\* MatToJacMat.__init__(self, derivatives, params): keeps the derivatives and
\* runs ModuleExtension.__init__.
MatToJacMat__init__(self, derivatives, params) ==
    [ModuleExtension__init__(self, params) EXCEPT !.derivatives = derivatives]

\* SqrtGGNBaseModule._make_param_function(param_str): the function generated.
_make_param_function(param_str) == [generated_for |-> param_str]

\* param_function(ext, module, g_inp, g_out, backproped) of a generated
\* function: the call it makes on the derivatives.
param_function(fn, derivatives, extension, module, g_inp, g_out, backproped) ==
    [on |-> derivatives, method |-> <<fn.generated_for, "_jac_t_mat_prod">>,
     args |-> <<module, g_inp, g_out, backproped>>, sum_batch |-> FALSE]

\* The loop of SqrtGGNBaseModule.__init__ from position i on.
RECURSIVE install_param_functions(_, _, _)
install_param_functions(self, params, i) ==
    IF i > Len(params) THEN self
    ELSE LET param_str == params[i]
         IN  install_param_functions(
                 IF ~hasattr(self, param_str)
                 THEN setattr(self, param_str, _make_param_function(param_str))
                 ELSE self,
                 params, i + 1)

\* SqrtGGNBaseModule.__init__ that hands the instance on as it found it.
SqrtGGNBaseModule__init__without_functions(self, derivatives, params) ==
    MatToJacMat__init__(self, derivatives, params)

\* SqrtGGNBaseModule.__init__(self, derivatives, params)
SqrtGGNBaseModule__init__(self, derivatives, params) ==
    MatToJacMat__init__(
        IF params # None THEN install_param_functions(self, params.list, 1) ELSE self,
        derivatives, params)

\* Nothing has been constructed; the engine is at rest after a forward pass.
InitConstruct == InitStore

\* A child class of ModuleExtension defining the given methods is instantiated.
ConstructModuleExtension(methods, params) ==
    /\ call = NoCall
    /\ LET r == ModuleExtension__init__(NewInstance(methods), params)
       IN  call' = [op |-> "ModuleExtension", methods |-> methods, params |-> params,
                    self |-> r.self, __params |-> r.__params, derivatives |-> r.derivatives,
                    raised |-> r.raised, invoked |-> None]
    /\ UNCHANGED engine

\* A child class of SqrtGGNBaseModule defining the given methods is instantiated.
ConstructSqrtGGNBaseModule(methods, derivatives, params) ==
    /\ call = NoCall
    /\ LET r == SqrtGGNBaseModule__init__(NewInstance(methods), derivatives, params)
       IN  call' = [op |-> "SqrtGGNBaseModule", methods |-> methods, params |-> params,
                    self |-> r.self, __params |-> r.__params, derivatives |-> r.derivatives,
                    raised |-> r.raised, invoked |-> None]
    /\ UNCHANGED engine

\* extFunc = getattr(self, param); extFunc(extension, module, g_inp, g_out,
\* bp_quantity) on a constructed SqrtGGNBaseModule, as the hook of module m does.
InvokeParamFunction(i, m, q) ==
    /\ call.op = "SqrtGGNBaseModule"
    /\ call.raised = "none"
    /\ call.invoked = None
    /\ i \in 1 .. Len(call.__params)
    /\ LET fn == call.self[call.__params[i]]
       IN  call' = [call EXCEPT !.invoked =
                      [name |-> call.__params[i], module |-> m, backproped |-> q,
                       result |-> IF fn \in {[generated_for |-> n] : n \in AttrNames}
                                  THEN param_function(fn, call.derivatives, ext, m,
                                                      GradInp(m), GradOut(m), q)
                                  ELSE fn]]
    /\ UNCHANGED engine

NextConstruct ==
    \/ \E methods \in SUBSET AttrNames, params \in ParamArgs :
          ConstructModuleExtension(methods, params)
    \/ \E methods \in SUBSET AttrNames, derivatives \in Derivatives, params \in ParamArgs :
          ConstructSqrtGGNBaseModule(methods, derivatives, params)
    \/ \E i \in 1 .. MaxParams, m \in {1, 3} : \E q \in StoreQuantities(m + 1) :
          InvokeParamFunction(i, m, q)

SpecConstruct == InitConstruct /\ [][NextConstruct]_vars

\* -------------------------------------------- Branch, SumModule, Parallel
\* A Branch is given at most MaxBranches sub-modules.
MaxBranches == 2
\* Tensors have TensorDim elements.
TensorDim == 2

\* Tensors: vectors of small numbers, all of one shape.
TensorValues == {[tensor |-> v] : v \in [1 .. TensorDim -> 0 .. 1]}

\* Module objects that can be handed to Branch and Parallel: an
\* ActiveIdentity, a ScaleModule(weight=2) and a second ActiveIdentity.
ModulePool ==
    {[id |-> 1, cls |-> "ActiveIdentity", weight |-> 1],
     [id |-> 2, cls |-> "ScaleModule", weight |-> 2],
     [id |-> 3, cls |-> "ActiveIdentity", weight |-> 1]}

\* A merge module of the user's: the element-wise product of its inputs.
MulModule == [id |-> 4, cls |-> "MulModule", weight |-> 1]

\* Keys of an ordered dictionary of modules, in insertion order.
KeyNames == <<"first", "second", "third", "fourth">>

\* The positional arguments of Branch and Parallel: modules, or one ordered
\* dictionary of modules.
ModuleLists == UNION {[1 .. n -> ModulePool] : n \in 1 .. MaxBranches}
BranchArgs ==
    ModuleLists \cup
    {<<[ordered_dict |-> [i \in 1 .. Len(ms) |-> <<KeyNames[i], ms[i]>>]]>> : ms \in ModuleLists}

\* isinstance(args[0], OrderedDict)
is_ordered_dict(value) == "ordered_dict" \in DOMAIN value

\* isinstance(input, tuple)
is_tuple(value) == "tuple" \in DOMAIN value

is_tensor(value) == "tensor" \in DOMAIN value

\* str(idx) of enumerate(args)
str(idx) == <<"0", "1", "2", "3">>[idx + 1]

\* Branch.__init__(*args): the modules registered with add_module, as
\* <<key, module>> in registration order.
Branch__init__(args) ==
    IF Len(args) = 1 /\ is_ordered_dict(args[1])
    THEN args[1].ordered_dict
    ELSE [i \in 1 .. Len(args) |-> <<str(i - 1), args[i]>>]

\* self.children(): the registered modules in registration order, each module
\* object once.
RECURSIVE children(_)
children(_modules) ==
    IF _modules = <<>> THEN <<>>
    ELSE LET before == children(SubSeq(_modules, 1, Len(_modules) - 1))
             module == _modules[Len(_modules)][2]
         IN  IF \E i \in 1 .. Len(before) : before[i].id = module.id
             THEN before ELSE Append(before, module)

\* module(input) of an ActiveIdentity or ScaleModule: input * weight.
scale(module, input) ==
    [tensor |-> [i \in 1 .. Len(input.tensor) |-> input.tensor[i] * module.weight]]

\* Branch.forward(input)
Branch_forward(_modules, input) ==
    LET modules == children(_modules)
    IN  [tuple |-> [i \in 1 .. Len(modules) |-> scale(modules[i], input)]]

\* a + b as sum() computes it: a number or tensor plus a tensor; a list or a
\* tuple cannot be added to a number.
add(a, b) ==
    IF "raised" \in DOMAIN a THEN a
    ELSE IF ~is_tensor(b) THEN [raised |-> "TypeError"]
    ELSE IF is_tensor(a)
    THEN [tensor |-> [i \in 1 .. Len(b.tensor) |-> a.tensor[i] + b.tensor[i]]]
    ELSE [tensor |-> [i \in 1 .. Len(b.tensor) |-> a.int + b.tensor[i]]]

\* sum(input): 0 + input[0] + input[1] + ...
RECURSIVE sum(_)
sum(items) ==
    IF items = <<>> THEN [int |-> 0]
    ELSE add(sum(SubSeq(items, 1, Len(items) - 1)), items[Len(items)])

\* SumModule.forward(*input): input is the tuple of the positional arguments.
SumModule_forward(args) ==
    LET input == [tuple |-> args]
    IN  IF ~is_tuple(input) THEN [raised |-> "ValueError"]
        ELSE sum(input.tuple)

\* The element-wise product of the inputs.
RECURSIVE MulModule_forward(_)
MulModule_forward(args) ==
    IF Len(args) = 1 THEN args[1]
    ELSE LET rest == MulModule_forward(SubSeq(args, 1, Len(args) - 1))
             last == args[Len(args)]
         IN  [tensor |-> [i \in 1 .. Len(last.tensor) |-> rest.tensor[i] * last.tensor[i]]]

\* Parallel.__init__(*args, merge_module=None)
Parallel__init__(args, merge_module) ==
    [branch |-> Branch__init__(args),
     merge |-> IF merge_module = None THEN [id |-> 0, cls |-> "SumModule", weight |-> 1]
               ELSE merge_module]

\* Parallel.forward(input): self.merge(*self.branch(input))
Parallel_forward(self, input) ==
    LET outputs == Branch_forward(self.branch, input).tuple
    IN  IF self.merge.cls = "SumModule" THEN SumModule_forward(outputs)
        ELSE MulModule_forward(outputs)

\* The arguments SumModule.forward is called with: tensors, or by mistake a
\* list or a tuple of tensors as one argument.
TensorLists == UNION {[1 .. n -> TensorValues] : n \in 1 .. MaxBranches}
SumArgs ==
    TensorLists \cup {<<[list |-> ts]>> : ts \in TensorLists}
                \cup {<<[tuple |-> ts]>> : ts \in TensorLists}

InitBranching == InitStore

BranchForward(args, input) ==
    /\ call = NoCall
    /\ call' = [op |-> "Branch.forward", args |-> args, input |-> input,
                result |-> Branch_forward(Branch__init__(args), input)]
    /\ UNCHANGED engine

SumModuleForward(args) ==
    /\ call = NoCall
    /\ call' = [op |-> "SumModule.forward", args |-> args, result |-> SumModule_forward(args)]
    /\ UNCHANGED engine

ParallelForward(args, merge_module, input) ==
    /\ call = NoCall
    /\ call' = [op |-> "Parallel.forward", args |-> args, merge_module |-> merge_module,
                input |-> input,
                result |-> Parallel_forward(Parallel__init__(args, merge_module), input)]
    /\ UNCHANGED engine

NextBranching ==
    \/ \E args \in BranchArgs, input \in TensorValues : BranchForward(args, input)
    \/ \E args \in SumArgs : SumModuleForward(args)
    \/ \E args \in BranchArgs, merge_module \in {None, MulModule}, input \in TensorValues :
          ParallelForward(args, merge_module, input)

SpecBranching == InitBranching /\ [][NextBranching]_vars

\* ---------------------------------------- HBPParallelFactory.fromHBPLinear
\* The largest number of output features of the layer that is split.
MaxFeatures == 3

\* The largest number of entries of out_features_list.
MaxSplits == 3

\* weight.data of a linear layer with out_features rows: row k of the layer
\* that is split is labelled k (rows are numbered from 0).
WeightData(out_features) == [k \in 1 .. out_features |-> [weight_row |-> k - 1]]

\* bias.data of a linear layer with out_features entries.
BiasData(out_features) == [k \in 1 .. out_features |-> [bias_row |-> k - 1]]

\* The HBPLinear layers handed to fromHBPLinear, with and without bias.
HBPLinearLayers ==
    {[in_features |-> n, out_features |-> o,
      weight |-> [data |-> WeightData(o)],
      bias |-> IF has_bias THEN [data |-> BiasData(o)] ELSE None] :
        n \in {1, 2}, o \in 0 .. MaxFeatures, has_bias \in BOOLEAN}

\* The lists of output features: feature numbers are not negative.
OutFeaturesLists == UNION {[1 .. n -> 0 .. MaxFeatures] : n \in 0 .. MaxSplits}

\* sum(out_features_list) of a list of integers
RECURSIVE sum_of_list(_)
sum_of_list(out_features_list) ==
    IF out_features_list = <<>> THEN 0
    ELSE sum_of_list(SubSeq(out_features_list, 1, Len(out_features_list) - 1))
         + out_features_list[Len(out_features_list)]

\* numpy.cumsum(out_features_list): the sums of the prefixes of the list.
cumsum(out_features_list) ==
    [i \in 1 .. Len(out_features_list) |-> sum_of_list(SubSeq(out_features_list, 1, i))]

\* data[i:j] that includes row j.
slice_through(data, i, j) ==
    LET start == IF i < Len(data) THEN i ELSE Len(data)
        stop == IF j + 1 < Len(data) THEN j + 1 ELSE Len(data)
    IN  IF stop <= start THEN <<>> ELSE SubSeq(data, start + 1, stop)

\* data[i:j] for i, j >= 0: the rows i, ..., j - 1 that data has (Python
\* clips both ends of a slice to the length of data).
slice(data, i, j) ==
    LET start == IF i < Len(data) THEN i ELSE Len(data)
        stop == IF j < Len(data) THEN j ELSE Len(data)
    IN  IF stop <= start THEN <<>> ELSE SubSeq(data, start + 1, stop)

\* HBPParallelFactory.fromHBPLinear(hbp_linear, out_features_list): the
\* exception raised, or the layers handed to cls(layers).
fromHBPLinear(hbp_linear, out_features_list) ==
    IF ~(sum_of_list(out_features_list) = hbp_linear.out_features)
    THEN [raised |-> "ValueError", layers |-> <<>>]
    ELSE LET in_features == hbp_linear.in_features
             has_bias == hbp_linear.bias # None
             idx0 == <<0>> \o cumsum(out_features_list)
             idx == [i \in 1 .. Len(idx0) - 1 |-> <<idx0[i], idx0[i + 1]>>]
             zipped == IF Len(idx) < Len(out_features_list)
                       THEN Len(idx) ELSE Len(out_features_list)
         IN  [raised |-> "none",
              layers |->
                 [n \in 1 .. zipped |->
                     LET out == out_features_list[n]
                         i == idx[n][1]
                         j == idx[n][2]
                     IN  [in_features |-> in_features,
                          out_features |-> out,
                          weight |-> [data |-> slice(hbp_linear.weight.data, i, j)],
                          bias |-> IF has_bias
                                   THEN [data |-> slice(hbp_linear.bias.data, i, j)]
                                   ELSE None]]]

InitSplit == InitStore

FromHBPLinear(hbp_linear, out_features_list) ==
    /\ call = NoCall
    /\ call' = [op |-> "fromHBPLinear", hbp_linear |-> hbp_linear,
                out_features_list |-> out_features_list,
                result |-> fromHBPLinear(hbp_linear, out_features_list)]
    /\ UNCHANGED engine

NextSplit ==
    \E hbp_linear \in HBPLinearLayers, out_features_list \in OutFeaturesLists :
        FromHBPLinear(hbp_linear, out_features_list)

SpecSplit == InitSplit /\ [][NextSplit]_vars

\* ------------------------------------------------------------- properties
\* The hook recorded in hook ran in the current pass and nothing has happened
\* to the tensors since.
HookIsCurrent == hook.module # None /\ hook.pass = pass /\ phase # "forward"

\* The hook recorded in hook passed validation: it neither raised nor returned early.
HookPassed == hook.module # None /\ hook.raised = "none" /\ ~hook.returned_early

\* The call of function fn the recorded hook is to make with the fetched quantity.
ExpectedCall(fn) ==
    [fn |-> fn, extension |-> ext, module |-> hook.module.id,
     g_inp |-> [grad_wrt |-> hook.module.input0],
     g_out |-> [grad_wrt |-> hook.module.output],
     bpQuantities |-> hook.fetched]

Called(fn) == \E i \in 1 .. Len(hook.calls) : hook.calls[i].fn = fn

\* C1: after save(k, v) a consuming retrieve(k) returns v, and a retrieve(k)
\* right after a consuming retrieve(k) returns None: a saved payload is handed
\* out once.
C1_SavedPayloadHandedOutOnce ==
    \A i \in 1 .. Len(hist) - 1 :
        LET a == hist[i]
            b == hist[i + 1]
        IN  b.op = "retrieve" /\ b.key = a.key =>
              /\ a.op = "save" => b.ret = a.quantity
              /\ a.op = "retrieve" /\ a.delete_old => b.ret = None

\* C1 witness: a consuming retrieve handed out a saved payload and the retrieve
\* of the same key right after it found nothing.
C1_Witness ==
    /\ Len(hist) = 2
    /\ hist[1].op = "retrieve" /\ hist[1].delete_old /\ hist[1].ret # None
    /\ hist[2].op = "retrieve" /\ hist[2].key = hist[1].key /\ hist[2].ret = None

\* C2: a hook raises the AssertionError exactly when the driver expects
\* quantities, the fetched quantity is None, the module is no loss and it is
\* not a Flatten under the legacy hook with equal input and output shape.
C2_RaisesExactlyWhenExpectedQuantityMissing ==
    hook.module # None =>
        (hook.raised = "AssertionError" <=>
            /\ ext.expects
            /\ hook.fetched = None
            /\ hook.module.cls # "Loss"
            /\ ~ (/\ ~FULL_BACKWARD_HOOK
                  /\ hook.module.cls = "Flatten"
                  /\ ShapeOf(net, hook.module.input0) = ShapeOf(net, hook.module.output)))

\* C2 witness: a Flatten hook raised.
C2_Witness == hook.module # None /\ hook.module.cls = "Flatten" /\ hook.raised = "AssertionError"

\* C3: in a sequential chain ending in a loss, with a driver that expects
\* quantities and extensions that all produce one, no hook raises, and every
\* module but the loss fetches the quantity its successor stored in this pass.
C3_ChainFetchesSuccessorQuantity ==
    /\ net # "parallel"
    /\ ext.expects
    /\ module_extensions = ModuleExtensionsWith(Classes)
    /\ hook.module # None
    => /\ hook.raised = "none"
       /\ ~hook.returned_early
       /\ hook.module.cls # "Loss" =>
            /\ hook.fetched = [by |-> hook.module.id + 1, pass |-> hook.pass]
            /\ InputsOf(net, hook.fetched.by)[1] = hook.module.output

\* C3 witness: in the second pass the first module of the chain fetched what
\* the second stored in that pass.
C3_Witness ==
    /\ net # "parallel" /\ ext.expects /\ module_extensions = ModuleExtensionsWith(Classes)
    /\ hook.module # None /\ hook.module.id = 1
    /\ hook.fetched = [by |-> 2, pass |-> 2]

\* C4: a hook that reaches step 4 calls backpropagate exactly when input0
\* requires grad and the driver expects quantities, and then its result is in
\* the store under the key of input0; otherwise backpropagate is not called
\* and the hook saves nothing.
C4_BackpropagatesExactlyWhenInputRequiresGradAndExpected ==
    HookIsCurrent =>
        LET should == tensors[hook.module.input0].requires_grad /\ ext.expects
        IN  /\ HookPassed =>
                /\ Called("backpropagate") <=> should
                /\ should =>
                     /\ Len(hook.saved) = 1
                     /\ hook.saved[1].ref = hook.module.input0
                     /\ hook.saved[1].quantity =
                          (IF module_extensions[hook.module.cls].overrides
                           THEN [by |-> hook.module.id, pass |-> hook.pass] ELSE None)
                     /\ <<data_ptr(hook.module.input0), hook.saved[1].quantity>>
                            \in saved_quantities
            /\ ~should \/ ~HookPassed =>
                /\ ~Called("backpropagate")
                /\ hook.saved = <<>>

\* C4 witness: a hook of a module in the middle of the network saved its
\* backpropagated quantity.
C4_Witness ==
    /\ HookIsCurrent /\ HookPassed
    /\ hook.module.id = 2
    /\ Len(hook.saved) = 1 /\ hook.saved[1].quantity # None

\* C5: in the Parallel network, with a driver that expects quantities and
\* extensions that all produce one, every hook but the loss's fetches a
\* quantity its successor stored, and no hook fails.
C5_ParallelKeepsChaining ==
    /\ net = "parallel"
    /\ ext.expects
    /\ module_extensions = ModuleExtensionsWith(Classes)
    /\ hook.module # None
    => /\ hook.raised = "none"
       /\ hook.module.cls # "Loss" =>
            /\ hook.fetched # None
            /\ hook.fetched.pass = hook.pass
            /\ hook.fetched.by \in ConsumersOf(net, hook.module.output)

\* C6: the store holds at most one entry per key; after save(k, v) the entry
\* of k is v and nothing else, and after a consuming retrieve(k) k has no entry.
C6_OneEntryPerKey ==
    /\ \A e1 \in saved_quantities, e2 \in saved_quantities : e1[1] = e2[1] => e1 = e2
    /\ hist # <<>> =>
        LET last == hist[Len(hist)]
        IN  /\ last.op = "save" =>
                {e \in saved_quantities : e[1] = last.key} = {<<last.key, last.quantity>>}
            /\ last.op = "retrieve" /\ last.delete_old => last.key \notin keys_of(saved_quantities)

\* C6 witness: a save replaced a payload saved under the same key just before.
C6_Witness ==
    /\ Len(hist) = 2
    /\ hist[1].op = "save" /\ hist[2].op = "save"
    /\ hist[1].key = hist[2].key /\ hist[1].quantity # hist[2].quantity

\* C7: over any sequence of backward passes of a sequential network on one
\* store, no hook fetches a quantity saved during an earlier pass.
C7_NoQuantityFromEarlierPass ==
    net # "parallel" /\ hook.module # None /\ hook.fetched # None =>
        hook.fetched.pass = hook.pass

\* C8 as stated: a hook that finds an entry holding an empty (None) quantity
\* under its output key does not raise.
C8_PresentButEmptyDoesNotRaise ==
    hook.module # None /\ hook.present /\ hook.fetched = None => hook.raised = "none"

\* C8 amended: an entry holding None is treated like a missing one: the hook
\* raises unless the module is a loss or a Flatten under the legacy hook with
\* equal shapes.
C8_PresentButEmptyIsTreatedAsMissing ==
    hook.module # None /\ hook.present /\ hook.fetched = None =>
        /\ ext.expects
        /\ hook.raised = "none" <=>
              \/ hook.module.cls = "Loss"
              \/ /\ ~FULL_BACKWARD_HOOK
                 /\ hook.module.cls = "Flatten"
                 /\ ShapeOf(net, hook.module.input0) = ShapeOf(net, hook.module.output)

\* C8 witness: a Linear hook found the None its successor stored, and raised.
C8_Witness ==
    /\ hook.module # None /\ hook.present /\ hook.fetched = None
    /\ hook.module.cls = "Linear" /\ hook.raised = "AssertionError"

\* C9 as stated: a fetch returns a quantity only to the tensor object it was
\* saved with as reference.
C9_KeyIsTensorObject ==
    \A i \in 1 .. Len(hist) :
        hist[i].op = "retrieve" /\ hist[i].ret # None =>
            io[hist[i].ret.by].input0 = hist[i].ref

\* C9 amended: a fetch returns a quantity only to a reference tensor with the
\* data_ptr() of the tensor it was saved with; tensors that share their
\* storage share the key.
C9_KeyIsStorageAddress ==
    \A i \in 1 .. Len(hist) :
        hist[i].op = "retrieve" /\ hist[i].ret # None =>
            data_ptr(io[hist[i].ret.by].input0) = data_ptr(hist[i].ref)

\* C9 witness: a quantity saved with the Flatten's input as reference was
\* fetched with the Flatten's output as reference.
C9_Witness ==
    \E i \in 1 .. Len(hist) :
        /\ hist[i].op = "retrieve" /\ hist[i].ret # None
        /\ io[hist[i].ret.by].input0 # hist[i].ref

\* C10: a hook that passes validation calls, for every parameter name of the
\* extension that the module has with requires_grad, the function of that
\* name with (extension, module, g_inp, g_out, fetched quantity), and the
\* parameter's attribute ext.savefield holds the value returned, whatever it
\* held before; the other attribute is not written.
C10_ParameterValuesSaved ==
    HookPassed =>
        LET m == hook.module.id
            self == module_extensions[hook.module.cls]
        IN  \A i \in 1 .. Len(self.params) :
                LET param == self.params[i]
                IN  parameters[m][param] # None /\ parameters[m][param].requires_grad =>
                      /\ \E j \in 1 .. Len(hook.calls) : hook.calls[j] = ExpectedCall(param)
                      /\ parameters[m][param].attrs[ext.savefield] = ExpectedCall(param)
                      /\ \A f \in Savefields \ {ext.savefield} :
                            parameters[m][param].attrs[f] = NoAttr

\* C10 witness: in the second pass a value computed from that pass's quantity
\* replaced the weight's value of the first pass.
C10_Witness ==
    /\ HookPassed /\ hook.module.id = 1 /\ hook.pass = 2
    /\ hook.fetched # None /\ hook.fetched.pass = 2
    /\ parameters[1]["weight"].attrs[ext.savefield] = ExpectedCall("weight")

\* C11: the modules hold input0 and output from the forward pass on: they are
\* all there after a forward pass and after every completed backward pass
\* with retain_graph, however many there were, and no module has them once a
\* backward pass without retain_graph has completed. In test_retain_graph,
\* _clear_input_output(model) raises after each forward pass and after each
\* of the retained backward passes, and returns True after the first and the
\* last backward pass.
C11_ReferencesHeldUntilNonRetainedBackward ==
    /\ phase = "forward" \/ (phase = "done" /\ retain_graph) =>
          \A m \in ModuleIds : has_input0_or_output(m)
    /\ phase = "done" /\ ~retain_graph =>
          \A m \in ModuleIds : ~has_input0_or_output(m)
    /\ phase = "forward" \/ (phase = "done" /\ pass \in 2 .. (2 + Replays)) =>
          _clear_input_output(model_children(net)) = "AssertionError"
    /\ phase = "done" /\ pass \in {1, LastBackward} =>
          _clear_input_output(model_children(net)) = "True"

\* C11 witness: the backward pass without retain_graph that follows the four
\* retained ones has completed and the model is clear.
C11_Witness ==
    /\ phase = "done" /\ pass = LastBackward /\ ~retain_graph
    /\ _clear_input_output(model_children(net)) = "True"

\* The names a declared list contains that have no attribute on a new instance
\* of a class defining the given methods.
WithoutAttribute(methods, params) ==
    IF params = None THEN {}
    ELSE {params.list[i] : i \in 1 .. Len(params.list)} \ (methods \cup {"backpropagate"})

\* C12: constructing a ModuleExtension raises NotImplementedError exactly when
\* some declared name has no attribute on the instance; otherwise (all names
\* have one, the list is empty, or params is None) construction succeeds and
\* keeps the declared list.
C12_RaisesExactlyWhenDeclaredNameHasNoAttribute ==
    call.op = "ModuleExtension" =>
        /\ call.raised = "NotImplementedError" <=>
              WithoutAttribute(call.methods, call.params) # {}
        /\ call.raised \in {"none", "NotImplementedError"}
        /\ call.__params = (IF call.params = None THEN <<>> ELSE call.params.list)

\* C12 witness: the first declared name has a method, the second has none, and
\* construction raised.
C12_Witness ==
    /\ call.op = "ModuleExtension" /\ call.raised = "NotImplementedError"
    /\ call.params # None /\ Len(call.params.list) = 2
    /\ call.params.list[1] \in call.methods
    /\ call.params.list[2] \notin call.methods

\* The Flatten whose input shape equals its output shape is hooked under the
\* legacy backward hook by a driver that expects quantities.
NoOpFlattenUnderLegacyHook(m) ==
    /\ ClassOf(net, m) = "Flatten"
    /\ ShapeOf(net, InputsOf(net, m)[1]) = ShapeOf(net, m)
    /\ ~FULL_BACKWARD_HOOK
    /\ ext.expects

\* C13: a hook of a Flatten with equal input and output shape, under the legacy
\* backward hook, with a driver that expects quantities and no quantity under
\* the key of the module output, returns early without an error: it calls no
\* function, writes no parameter attribute, does not call backpropagate and
\* leaves the store as it is.
C13_NoOpFlattenReturnsEarlyWithoutEffects ==
    [][\A m \in ModuleIds :
          /\ hook = NoHook /\ hook' # NoHook /\ hook'.module.id = m
          /\ NoOpFlattenUnderLegacyHook(m)
          /\ data_ptr(m) \notin keys_of(saved_quantities)
          => /\ hook'.raised = "none"
             /\ hook'.returned_early
             /\ hook'.calls = <<>>
             /\ hook'.saved = <<>>
             /\ parameters' = parameters
             /\ saved_quantities' = saved_quantities]_vars

\* C13 witness: such a hook has returned early although the extension tracks
\* parameters the module has and input0 requires grad.
C13_Witness ==
    /\ hook # NoHook /\ hook.returned_early /\ ~hook.present
    /\ NoOpFlattenUnderLegacyHook(hook.module.id)
    /\ module_extensions["Flatten"].params # <<>>
    /\ parameters[hook.module.id]["weight"] = NewParam(TRUE)
    /\ tensors[hook.module.input0].requires_grad
    /\ saved_quantities # {}

\* C14: a hook invocation that raises the AssertionError writes no parameter
\* attribute, does not call backpropagate, saves nothing and leaves the store
\* exactly as it was before the invocation.
C14_RaisingHookLeavesStoreUnchanged ==
    [][phase = "backward" /\ phase' = "aborted" /\ hook'.raised = "AssertionError"
          => /\ parameters' = parameters
             /\ hook'.calls = <<>>
             /\ hook'.saved = <<>>
             /\ saved_quantities' = saved_quantities]_vars

\* The sub-modules a Branch or Parallel was given, in the order given.
SubModules(args) ==
    IF Len(args) = 1 /\ is_ordered_dict(args[1])
    THEN [i \in 1 .. Len(args[1].ordered_dict) |-> args[1].ordered_dict[i][2]]
    ELSE args

\* C15: Branch.forward(input) of a Branch constructed with N sub-modules,
\* positionally or by an ordered dictionary, returns a tuple of exactly N
\* outputs, the i-th being the output of the i-th sub-module for input.
C15_BranchReturnsOneOutputPerSubModule ==
    call.op = "Branch.forward" =>
        LET subs == SubModules(call.args)
        IN  /\ Len(call.result.tuple) = Len(subs)
            /\ \A i \in 1 .. Len(subs) :
                  call.result.tuple[i] = scale(subs[i], call.input)

\* Element j of the sum of the tensors ts.
RECURSIVE ElementSum(_, _)
ElementSum(ts, j) ==
    IF ts = <<>> THEN 0
    ELSE ElementSum(SubSeq(ts, 1, Len(ts) - 1), j) + ts[Len(ts)].tensor[j]

\* The element-wise sum of the tensors ts.
TensorSum(ts) == [tensor |-> [j \in 1 .. TensorDim |-> ElementSum(ts, j)]]

\* C16: SumModule.forward called with k >= 1 tensors of one shape returns
\* their element-wise sum, and called with an argument that is not a tuple
\* (a list of tensors) it raises ValueError.
C16_SumModuleSumsAndRejectsNonTuple ==
    call.op = "SumModule.forward" =>
        /\ (\A i \in 1 .. Len(call.args) : is_tensor(call.args[i])) =>
              call.result = TensorSum(call.args)
        /\ Len(call.args) = 1 /\ "list" \in DOMAIN call.args[1] =>
              call.result = [raised |-> "ValueError"]

\* C17: Parallel.forward(x) is the merge module applied to the outputs of
\* Branch.forward(x); with the default merge it is the sum of the outputs of
\* all the sub-modules given, Parallel(f, g)(x) = f(x) + g(x); with a custom
\* merge module it is that module applied to the ordered branch outputs.
C17_ParallelIsMergeOfBranch ==
    call.op = "Parallel.forward" =>
        LET subs == SubModules(call.args)
            outputs == Branch_forward(Branch__init__(call.args), call.input).tuple
        IN  /\ call.merge_module = None =>
                /\ call.result = SumModule_forward(outputs)
                /\ call.result =
                     TensorSum([i \in 1 .. Len(subs) |-> scale(subs[i], call.input)])
            /\ call.merge_module # None =>
                call.result = MulModule_forward(outputs)

\* C18: a fetch with delete_old = False returns the payload of the key and
\* leaves the store unchanged, so that the next fetch of that key returns the
\* payload again; the entry is removed only when delete_old is True; a fetch
\* of a key without entry returns None and leaves the store unchanged.
C18_NonConsumingFetchLeavesStoreUnchanged ==
    [][hist' # hist /\ hist'[Len(hist')].op = "retrieve" =>
          LET b == hist'[Len(hist')]
          IN  /\ b.key \in keys_of(saved_quantities) => <<b.key, b.ret>> \in saved_quantities
              /\ b.key \notin keys_of(saved_quantities) =>
                    b.ret = None /\ saved_quantities' = saved_quantities
              /\ ~b.delete_old => saved_quantities' = saved_quantities
              /\ b.delete_old =>
                    saved_quantities' = {e \in saved_quantities : e[1] # b.key}
              /\ \A i \in 1 .. Len(hist') - 1 :
                    /\ hist'[i].op = "retrieve" /\ ~hist'[i].delete_old
                    /\ hist'[i + 1].op = "retrieve" /\ hist'[i + 1].key = hist'[i].key
                    => hist'[i + 1].ret = hist'[i].ret]_vars

\* C18 witness: two fetches of one key with delete_old = False returned the
\* same quantity one after the other, and the entry is still in the store.
C18_Witness ==
    /\ Len(hist) = 2
    /\ hist[1].op = "retrieve" /\ ~hist[1].delete_old /\ hist[1].ret # None
    /\ hist[2].op = "retrieve" /\ ~hist[2].delete_old /\ hist[2].key = hist[1].key
    /\ hist[2].ret = hist[1].ret
    /\ <<hist[2].key, hist[2].ret>> \in saved_quantities

\* A hook invocation has just passed step 2: it raised no AssertionError and
\* did not return early.
InvocationPassed ==
    /\ hook = NoHook /\ hook' # NoHook
    /\ hook'.raised # "AssertionError" /\ ~hook'.returned_early

\* The module has no attribute of that name.
Lacks(m, p) == parameters[m][p] = NoAttr

\* The module's field of that name is None or a parameter that does not
\* require grad.
NoneOrFrozen(m, p) ==
    ~Lacks(m, p) /\ (parameters[m][p] = None \/ ~parameters[m][p].requires_grad)

\* The invocation has called the function of name p with the fetched quantity
\* and stored its value in the savefield of the module's parameter p.
Processed(m, p) ==
    LET value == CallOf(p, ext, hook'.module, GradInp(m), GradOut(m), hook'.fetched)
    IN  /\ \E j \in 1 .. Len(hook'.calls) : hook'.calls[j] = value
        /\ parameters'[m][p] =
              [parameters[m][p] EXCEPT !.attrs[ext.savefield] = value]

\* The invocation has not called the function of name p and has left the
\* module's field p as it was.
Skipped(m, p) ==
    /\ \A j \in 1 .. Len(hook'.calls) : hook'.calls[j].fn # p
    /\ parameters'[m][p] = parameters[m][p]

\* C19 as stated: for a tracked name that the module does not have, or whose
\* parameter does not require grad, the invocation does not call the
\* function of that name, leaves the field unchanged, raises no error and
\* processes the other tracked names.
C19_SkipsMissingOrFrozenParameter ==
    [][InvocationPassed =>
          LET m == hook'.module.id
              params == module_extensions[hook'.module.cls].params
          IN  \A i \in 1 .. Len(params) :
                  Lacks(m, params[i]) \/ NoneOrFrozen(m, params[i]) =>
                      /\ Skipped(m, params[i])
                      /\ hook'.raised = "none"
                      /\ \A j \in 1 .. Len(params) :
                            ~Lacks(m, params[j]) /\ ~NoneOrFrozen(m, params[j]) =>
                                Processed(m, params[j])]_vars

\* C19 amended: when the module has a field of every tracked name, a name
\* whose field is None or does not require grad is skipped without an error
\* and the other tracked names are processed; when the module lacks a field
\* of a tracked name, the invocation raises AttributeError at the first such
\* name: the names before it are processed or skipped as above, those after
\* it are left alone, and backpropagate is not called.
C19_SkipsNoneOrFrozenParameter ==
    [][InvocationPassed =>
          LET m == hook'.module.id
              params == module_extensions[hook'.module.cls].params
              lacking == {i \in 1 .. Len(params) : Lacks(m, params[i])}
              reached == {i \in 1 .. Len(params) : \A k \in lacking : i < k}
          IN  /\ hook'.raised = (IF lacking = {} THEN "none" ELSE "AttributeError")
              /\ \A i \in reached :
                    IF NoneOrFrozen(m, params[i])
                    THEN Skipped(m, params[i]) ELSE Processed(m, params[i])
              /\ \A i \in (1 .. Len(params)) \ reached : Skipped(m, params[i])
              /\ lacking # {} =>
                    /\ hook'.saved = <<>>
                    /\ \A j \in 1 .. Len(hook'.calls) : hook'.calls[j].fn # "backpropagate"]_vars

\* C19 witness: the extension tracks bias and weight, the module's bias is
\* None, and the invocation has stored the value for weight without an error.
C19_Witness ==
    /\ hook # NoHook /\ hook.raised = "none" /\ ~hook.returned_early
    /\ module_extensions[hook.module.cls].params = <<"bias", "weight">>
    /\ parameters[hook.module.id]["bias"] = None
    /\ parameters[hook.module.id]["weight"] \notin {None, NoAttr}
    /\ parameters[hook.module.id]["weight"].attrs[ext.savefield] # NoAttr

\* C20: constructing a SqrtGGNBaseModule never raises NotImplementedError,
\* whatever names are declared: every declared name without a method has a
\* generated function when the base-class check runs, a method the child
\* class (or the base class) defines is kept, names that are not declared get
\* nothing, and a generated function called by a hook calls the derivatives'
\* <name>_jac_t_mat_prod(module, g_inp, g_out, backproped, sum_batch=False).
C20_SqrtGGNConstructionInstallsFunctions ==
    call.op = "SqrtGGNBaseModule" =>
        LET declared == IF call.params = None THEN {}
                        ELSE {call.params.list[i] : i \in 1 .. Len(call.params.list)}
        IN  /\ call.raised = "none"
            /\ \A n \in AttrNames :
                  call.self[n] =
                     (IF n \in call.methods THEN [defined_by |-> "child"]
                      ELSE IF n = "backpropagate" THEN [defined_by |-> "ModuleExtension"]
                      ELSE IF n \in declared THEN [generated_for |-> n]
                      ELSE NoAttr)
            /\ call.invoked # None /\ call.invoked.name \notin call.methods \cup {"backpropagate"} =>
                  call.invoked.result =
                     [on |-> call.derivatives,
                      method |-> <<call.invoked.name, "_jac_t_mat_prod">>,
                      args |-> <<call.invoked.module, GradInp(call.invoked.module),
                                 GradOut(call.invoked.module), call.invoked.backproped>>,
                      sum_batch |-> FALSE]

\* C20 witness: bias and weight were declared, the child class defines bias
\* only, construction succeeded and the function generated for weight was
\* called.
C20_Witness ==
    /\ call.op = "SqrtGGNBaseModule" /\ call.raised = "none"
    /\ call.params = [list |-> <<"bias", "weight">>]
    /\ call.methods = {"bias"}
    /\ call.invoked # None /\ call.invoked.name = "weight"
    /\ call.invoked.result.method = <<"weight", "_jac_t_mat_prod">>

\* The names of the functions the recorded hook called, in the order of the calls.
CalledNames == [j \in 1 .. Len(hook.calls) |-> hook.calls[j].fn]

\* The tracked names of the hooked module whose parameter exists and requires
\* grad, in declared order.
TrainableTracked ==
    SelectSeq(module_extensions[hook.module.cls].params,
              LAMBDA p : /\ parameters[hook.module.id][p] \notin {None, NoAttr}
                         /\ parameters[hook.module.id][p].requires_grad)

\* C21: a hook invocation fetches, validates, computes the per-parameter
\* values and then backpropagates: an invocation stopped by the validation
\* has called nothing; otherwise the per-parameter functions are called in
\* declared order, backpropagate (if called) comes after all of them, and
\* every call, backpropagate included, receives the quantity fetched for the
\* module output, not the one computed for the module input.
C21_StepsInOrder ==
    hook.module # None =>
        /\ ~HookPassed => hook.calls = <<>>
        /\ HookPassed =>
              /\ \/ CalledNames = TrainableTracked
                 \/ CalledNames = Append(TrainableTracked, "backpropagate")
              /\ \A j \in 1 .. Len(hook.calls) :
                    hook.calls[j].bpQuantities = hook.fetched
              /\ \A j \in 1 .. Len(hook.saved) :
                    hook.saved[j].quantity # None =>
                        /\ hook.saved[j].quantity # hook.fetched
                        /\ CalledNames[Len(CalledNames)] = "backpropagate"

\* C21 witness: the hook of the first Linear called bias, weight and
\* backpropagate, in this order, each with the quantity it had fetched, and
\* saved a new quantity.
C21_Witness ==
    /\ HookPassed /\ hook.fetched # None
    /\ CalledNames = <<"bias", "weight", "backpropagate">>
    /\ Len(hook.saved) = 1 /\ hook.saved[1].quantity # None

\* C22: when a backward pass over a sequential chain of modules has
\* completed, every entry saved during the pass has been consumed: the store
\* is empty.
C22_StoreEmptyAfterCompletedPass ==
    net # "parallel" /\ phase = "done" => saved_quantities = {}

\* C23: when the driver does not expect backpropagation quantities, a hook
\* invocation, for any module and any store, fetches the quantity under the
\* key of the module output and removes that entry, runs the loop over the
\* tracked parameters with the fetched quantity (None when the key has no
\* entry), never raises AssertionError, never returns early, does not call
\* backpropagate and adds no entry to the store.
C23_UnexpectingDriverFetchesComputesAndNeverSaves ==
    [][hook = NoHook /\ hook' # NoHook /\ ~expects_backpropagation_quantities(ext) =>
          LET m == hook'.module.id
              key == data_ptr(hook'.module.output)
              params == module_extensions[hook'.module.cls].params
              lacking == {i \in 1 .. Len(params) : Lacks(m, params[i])}
              reached == {i \in 1 .. Len(params) : \A k \in lacking : i < k}
          IN  /\ IF key \in keys_of(saved_quantities)
                 THEN <<key, hook'.fetched>> \in saved_quantities
                 ELSE hook'.fetched = None
              /\ saved_quantities' = {e \in saved_quantities : e[1] # key}
              /\ hook'.raised # "AssertionError"
              /\ ~hook'.returned_early
              /\ \A i \in reached :
                    IF NoneOrFrozen(m, params[i])
                    THEN Skipped(m, params[i]) ELSE Processed(m, params[i])
              /\ \A j \in 1 .. Len(hook'.calls) : hook'.calls[j].fn # "backpropagate"
              /\ hook'.saved = <<>>]_vars

\* C23 witness: under a driver that expects nothing, the hook of a module that
\* is not the loss, whose input requires grad and whose extension overrides
\* backpropagate, has consumed the entry of its output key, which held None,
\* and has called the functions of bias and weight with None.
C23_Witness ==
    /\ hook # NoHook /\ ~expects_backpropagation_quantities(ext)
    /\ hook.present /\ hook.fetched = None /\ saved_quantities = {}
    /\ hook.raised = "none"
    /\ ~is_loss(hook.module)
    /\ tensors[hook.module.input0].requires_grad
    /\ module_extensions[hook.module.cls].overrides
    /\ CalledNames = <<"bias", "weight">>
    /\ \A j \in 1 .. Len(hook.calls) : hook.calls[j].bpQuantities = None

\* c_i: the sum of the first i entries of the list (c_0 = 0).
RECURSIVE CumulativeSum(_, _)
CumulativeSum(list, i) == IF i = 0 THEN 0 ELSE CumulativeSum(list, i - 1) + list[i]

\* The set of the 0-based rows of the split layer that the i-th created layer
\* holds in its weight.
RowsOf(layer) == {layer.weight.data[k].weight_row : k \in 1 .. Len(layer.weight.data)}

\* C24: fromHBPLinear raises ValueError exactly when the list does not sum to
\* layer.out_features; otherwise it creates one layer per entry, the i-th
\* holding the weight rows (and bias entries) c_{i-1}, ..., c_i - 1 of the
\* split layer in their order, so that the slices are pairwise disjoint, lie
\* in the order of the list, and hold each of the rows 0 .. out_features - 1
\* exactly once.
C24_SplitsRowsAtCumulativeSums ==
    call.op = "fromHBPLinear" =>
        LET layer == call.hbp_linear
            list == call.out_features_list
            result == call.result
            c(i) == CumulativeSum(list, i)
        IN  /\ result.raised = "ValueError" <=> c(Len(list)) # layer.out_features
            /\ result.raised \in {"ValueError", "none"}
            /\ result.raised = "none" =>
                  /\ Len(result.layers) = Len(list)
                  /\ \A i \in 1 .. Len(list) :
                        LET created == result.layers[i]
                        IN  /\ created.out_features = list[i]
                            /\ created.in_features = layer.in_features
                            /\ Len(created.weight.data) = c(i) - c(i - 1)
                            /\ \A k \in 1 .. c(i) - c(i - 1) :
                                  created.weight.data[k] = [weight_row |-> c(i - 1) + k - 1]
                            /\ IF layer.bias = None THEN created.bias = None
                               ELSE /\ created.bias # None
                                    /\ Len(created.bias.data) = c(i) - c(i - 1)
                                    /\ \A k \in 1 .. c(i) - c(i - 1) :
                                          created.bias.data[k] = [bias_row |-> c(i - 1) + k - 1]
                  /\ \A i \in 1 .. Len(list) : \A j \in 1 .. Len(list) :
                        i < j =>
                           /\ RowsOf(result.layers[i]) \cap RowsOf(result.layers[j]) = {}
                           /\ \A a \in RowsOf(result.layers[i]) :
                                 \A b \in RowsOf(result.layers[j]) : a < b
                  /\ \A row \in 0 .. layer.out_features - 1 :
                        Cardinality({<<i, k>> \in (1 .. Len(list)) \X (1 .. layer.out_features) :
                                        /\ k <= Len(result.layers[i].weight.data)
                                        /\ result.layers[i].weight.data[k].weight_row = row}) = 1

\* C24 witness: a layer of three output features with bias has been split by
\* the list [1, 0, 2] into three layers, the second one empty, the third one
\* holding the rows 1 and 2.
C24_Witness ==
    /\ call.op = "fromHBPLinear"
    /\ call.hbp_linear.out_features = 3 /\ call.hbp_linear.bias # None
    /\ call.out_features_list = <<1, 0, 2>>
    /\ call.result.raised = "none"
    /\ Len(call.result.layers) = 3
    /\ call.result.layers[2].weight.data = <<>>
    /\ call.result.layers[3].weight.data = <<[weight_row |-> 1], [weight_row |-> 2]>>
    /\ call.result.layers[3].bias.data = <<[bias_row |-> 1], [bias_row |-> 2]>>

====
